---- MODULE Spec2Model ----
(***************************************************************************)
(* Model of google-scholar-pull-gui.py: the identifier extractor           *)
(* (parse_user_id), the paginated publication fetcher                      *)
(* (fetch_all_publications), the profile fetcher (fetch_scholar_profile)   *)
(* and the batch handler of the form (on_submit).                          *)
(*                                                                         *)
(* A Python string is a sequence of one-character strings, None and the    *)
(* other Python values are tagged records (PyNone, PyInt, PyStr, PyList,   *)
(* PyDict).  The text of an HTML element is the pair <<tag, id>> of the    *)
(* element's role and the row it belongs to, so that texts of different    *)
(* elements differ; the empty string is the empty sequence.                *)
(*                                                                         *)
(* The HTTP server is the environment: at every requests.get it chooses    *)
(* the status and the page.  One action is one requests.get together with  *)
(* all the code that runs until the next requests.get (or until the        *)
(* handler ends).                                                          *)
(***************************************************************************)
EXTENDS Integers, Sequences, FiniteSets, TLC

\* ------------------------------------------------------------------------
\* Program constants
\* ------------------------------------------------------------------------
DefaultRetries == 5
DefaultDelay == 60
PageSize == 100
MetricCells == 6

\* ------------------------------------------------------------------------
\* Bounds of the model
\* ------------------------------------------------------------------------
\* most requests the server answers during one call of fetch_scholar_profile
MaxRequests == 11
\* most full pages (PageSize rows) the server serves for one profile
MaxFullPages == 2

\* ------------------------------------------------------------------------
\* Python values
\* ------------------------------------------------------------------------
PyNone == [type |-> "NoneType"]
PyInt(n) == [type |-> "int", val |-> n]
PyStr(s) == [type |-> "str", val |-> s]
PyList(s) == [type |-> "list", val |-> s]
PyDict(d) == [type |-> "dict", val |-> d]

\* the sentinel of line 211, as a Python string (its letters are not needed)
FailedToCount == PyStr("Failed to count publications")

\* ------------------------------------------------------------------------
\* Strings: str.strip, str.startswith, str.split, as Python computes them
\* ------------------------------------------------------------------------
Whitespace == {" "}

RECURSIVE LStrip(_)
LStrip(s) ==
    IF s = <<>> THEN <<>>
    ELSE IF Head(s) \in Whitespace THEN LStrip(Tail(s)) ELSE s

RECURSIVE RStrip(_)
RStrip(s) ==
    IF s = <<>> THEN <<>>
    ELSE IF s[Len(s)] \in Whitespace THEN RStrip(SubSeq(s, 1, Len(s) - 1)) ELSE s

Strip(s) == RStrip(LStrip(s))

StartsWith(s, p) == Len(s) >= Len(p) /\ SubSeq(s, 1, Len(p)) = p

\* index of the first occurrence of character c in s, 0 when there is none
RECURSIVE FindFrom(_, _, _)
FindFrom(s, c, i) ==
    IF i > Len(s) THEN 0
    ELSE IF s[i] = c THEN i ELSE FindFrom(s, c, i + 1)

Find(s, c) == FindFrom(s, c, 1)

\* s.split(c): the pieces between the occurrences of c, empty pieces kept
RECURSIVE Split(_, _)
Split(s, c) ==
    LET i == Find(s, c)
    IN IF i = 0 THEN <<s>>
       ELSE <<SubSeq(s, 1, i - 1)>> \o Split(SubSeq(s, i + 1, Len(s)), c)

\* s.split(c, 1): at most one split, at the first occurrence
Split1(s, c) ==
    LET i == Find(s, c)
    IN IF i = 0 THEN <<s>>
       ELSE <<SubSeq(s, 1, i - 1), SubSeq(s, i + 1, Len(s))>>

\* c.join(pieces)
RECURSIVE Join(_, _)
Join(pieces, c) ==
    IF pieces = <<>> THEN <<>>
    ELSE IF Len(pieces) = 1 THEN pieces[1]
    ELSE pieces[1] \o <<c>> \o Join(Tail(pieces), c)

\* ------------------------------------------------------------------------
\* parse_user_id (lines 68-84)
\* ------------------------------------------------------------------------
HttpPrefix == <<"h", "t", "t", "p">>
UserKey == <<"u", "s", "e", "r">>

\* UrlQuery without the cut of the fragment
UrlQuery_KeepsFragment(url) ==
    LET q == Find(url, "?")
    IN IF q = 0 THEN <<>> ELSE SubSeq(url, q + 1, Len(url))

\* urlparse(url).query: the fragment is cut at the first '#', then the query
\* is what follows the first '?' of the rest
UrlQuery(url) ==
    LET h == Find(url, "#")
        nofrag == IF h = 0 THEN url ELSE SubSeq(url, 1, h - 1)
        q == Find(nofrag, "?")
    IN IF q = 0 THEN <<>> ELSE SubSeq(nofrag, q + 1, Len(nofrag))

\* parse_qs decodes names and values: s.replace('+', ' ') (the alphabet of
\* the model has no '%', so unquote changes nothing else)
PlusToSpace(s) == [i \in 1..Len(s) |-> IF s[i] = "+" THEN " " ELSE s[i]]

\* parse_qs(query).get(key, []): the values of the fields name=value of the
\* query, in order; fields without '=' and fields with a blank value are
\* dropped (keep_blank_values is False)
RECURSIVE QsValues(_, _)
QsValues(fields, key) ==
    IF fields = <<>> THEN <<>>
    ELSE LET nv == Split1(Head(fields), "=")
             rest == QsValues(Tail(fields), key)
         IN IF Len(nv) = 2 /\ nv[2] # <<>> /\ PlusToSpace(nv[1]) = key
            THEN <<PlusToSpace(nv[2])>> \o rest
            ELSE rest

ParseQsGet(query, key) == QsValues(Split(query, "&"), key)

parse_user_id(scholar_input) ==
    LET s == Strip(scholar_input)
        user_ids == ParseQsGet(UrlQuery(s), UserKey)
    IN IF ~StartsWith(s, HttpPrefix) THEN PyStr(s)
       ELSE IF user_ids # <<>> THEN PyStr(user_ids[1])
       ELSE PyNone

\* Python truth value of parse_user_id's result (`if not user_id`, line 276)
Truthy(v) ==
    CASE v.type = "NoneType" -> FALSE
      [] v.type = "str" -> v.val # <<>>
      [] v.type = "list" -> v.val # <<>>
      [] v.type = "dict" -> DOMAIN v.val # {}
      [] v.type = "int" -> v.val # 0

\* ------------------------------------------------------------------------
\* Pages the server can answer with
\* ------------------------------------------------------------------------
StatusOK == 200
StatusRateLimited == 429
\* statuses that are neither: the `else` branches of lines 143 and 218
OtherStatuses == {404, 500}
Statuses == {StatusOK, StatusRateLimited} \cup OtherStatuses

\* the text of the element `tag` of row `id`
Text(tag, id) == <<tag, id>>

\* A publication row (tr.gsc_a_tr): which of its elements exist.  title: the
\* a.gsc_a_at link; gray: the div.gs_gray elements in document order, each
\* named by what it holds; ac: the a.gsc_a_ac link; h: the span.gsc_a_h.
GrayShapes == {<<>>, <<"authors">>, <<"venue">>, <<"authors", "venue">>}
RowShapes == [title : BOOLEAN, gray : GrayShapes, ac : BOOLEAN, h : BOOLEAN]
GoodShape == [title |-> TRUE, gray |-> <<"authors", "venue">>, ac |-> TRUE, h |-> TRUE]

\* numbers of rows a publication page may carry
RowCounts == {0, 37, PageSize}

\* A publication page: n rows, all well formed except (when bad > 0) the row
\* at position bad, which has the shape `shape`.
PubPages ==
    { [n |-> n, bad |-> 0, shape |-> GoodShape] : n \in RowCounts }
    \cup { [n |-> n, bad |-> b, shape |-> sh] :
             n \in RowCounts \ {0}, b \in {1}, sh \in RowShapes \ {GoodShape} }
    \cup { [n |-> n, bad |-> n, shape |-> sh] :
             n \in RowCounts \ {0}, sh \in RowShapes \ {GoodShape} }

\* the rows of page pg served for offset cstart: row i is publication
\* cstart + i of the profile
Rows(pg, cstart) ==
    [i \in 1..pg.n |->
        [id |-> cstart + i, shape |-> IF i = pg.bad THEN pg.shape ELSE GoodShape]]

\* A profile page: whether div#gsc_prf_in and div.gsc_prf_il exist, how many
\* a.gsc_prf_inta links and how many td.gsc_rsb_std cells it carries.
ProfilePages ==
    [name : BOOLEAN, affiliation : BOOLEAN, interests : 0..1,
     cells : 0..(MetricCells + 1)]

\* ------------------------------------------------------------------------
\* fetch_all_publications: the body of `for pub in new_publications`
\* (lines 120-133)
\* ------------------------------------------------------------------------
\* ParseRow with a missing year replaced by the empty string
ParseRow_NoYearCheck(row) ==
    LET sh == row.shape
    IN IF ~sh.title THEN [raised |-> TRUE, field |-> "title", rec |-> <<>>]
       ELSE IF sh.gray = <<>> THEN [raised |-> TRUE, field |-> "authors", rec |-> <<>>]
       ELSE IF ~sh.ac THEN [raised |-> TRUE, field |-> "citations", rec |-> <<>>]
       ELSE [raised |-> FALSE, field |-> "",
             rec |-> [title |-> Text("title", row.id),
                      authors |-> Text(sh.gray[1], row.id),
                      journal |-> IF Len(sh.gray) > 1
                                  THEN Text(sh.gray[2], row.id) ELSE <<>>,
                      citations |-> Text("citations", row.id),
                      year |-> IF sh.h THEN Text("year", row.id) ELSE <<>>]]

\* One row: the record appended, or the exception raised by `.text` of None
ParseRow(row) ==
    LET sh == row.shape
    IN IF ~sh.title THEN [raised |-> TRUE, field |-> "title", rec |-> <<>>]
       ELSE IF sh.gray = <<>> THEN [raised |-> TRUE, field |-> "authors", rec |-> <<>>]
       ELSE IF ~sh.ac THEN [raised |-> TRUE, field |-> "citations", rec |-> <<>>]
       ELSE IF ~sh.h THEN [raised |-> TRUE, field |-> "year", rec |-> <<>>]
       ELSE [raised |-> FALSE, field |-> "",
             rec |-> [title |-> Text("title", row.id),
                      authors |-> Text(sh.gray[1], row.id),
                      journal |-> IF Len(sh.gray) > 1
                                  THEN Text(sh.gray[2], row.id) ELSE <<>>,
                      citations |-> Text("citations", row.id),
                      year |-> Text("year", row.id)]]

\* The loop over the rows, `acc` being the list before it: the loop stops at
\* the first row that raises, having appended the records of the rows before
\* it; otherwise it appends the records of all rows
ParseRows(rows, acc) ==
    LET raising == {i \in 1..Len(rows) : ParseRow(rows[i]).raised}
        first == IF raising = {} THEN Len(rows) + 1
                 ELSE CHOOSE i \in raising : \A j \in raising : i <= j
        appended == [i \in 1..(first - 1) |-> ParseRow(rows[i]).rec]
    IN [raised |-> raising # {},
        field |-> IF raising = {} THEN "" ELSE ParseRow(rows[first]).field,
        pubs |-> acc \o appended]

\* ------------------------------------------------------------------------
\* fetch_scholar_profile: the extraction of the profile page (lines 168-204)
\* ------------------------------------------------------------------------
EmptyDict == [k \in {} |-> <<>>]

NamePart(pg) ==
    IF pg.name THEN "name" :> Text("name", 0) ELSE EmptyDict

\* AffiliationPart nested under the test of the name
AffiliationPart_UnderName(pg) ==
    IF pg.name /\ pg.affiliation
    THEN "affiliation" :> Text("affiliation", 0) ELSE EmptyDict

AffiliationPart(pg) ==
    IF pg.affiliation THEN "affiliation" :> Text("affiliation", 0) ELSE EmptyDict

InterestsPart(pg) ==
    IF pg.interests > 0
    THEN "interests" :> [i \in 1..pg.interests |-> Text("interest", i)]
    ELSE EmptyDict

\* `if metrics:` then metrics[0] .. metrics[5]: an index past the end of the
\* list raises IndexError
MetricsRaises(pg) == pg.cells > 0 /\ pg.cells < MetricCells

MetricsPart(pg) ==
    IF pg.cells > 0
    THEN ("citations" :> [all |-> Text("cell", 0), recent |-> Text("cell", 1)])
         @@ ("h_index" :> [all |-> Text("cell", 2), recent |-> Text("cell", 3)])
         @@ ("i10_index" :> [all |-> Text("cell", 4), recent |-> Text("cell", 5)])
    ELSE EmptyDict

ParseProfilePage(pg) ==
    NamePart(pg) @@ AffiliationPart(pg) @@ InterestsPart(pg) @@ MetricsPart(pg)

\* MergePublications counting 0 publications when the fetch failed
MergePublications_ZeroCount(profile, publications) ==
    IF publications # PyNone
    THEN profile @@ ("publications_count" :> PyInt(Len(publications.val)))
                 @@ ("publications" :> publications.val)
    ELSE profile @@ ("publications_count" :> PyInt(0))
                 @@ ("publications" :> <<>>)

\* lines 207-212: the publication list merged into the profile
MergePublications(profile, publications) ==
    IF publications # PyNone
    THEN profile @@ ("publications_count" :> PyInt(Len(publications.val)))
                 @@ ("publications" :> publications.val)
    ELSE profile @@ ("publications_count" :> FailedToCount)
                 @@ ("publications" :> <<>>)

\* ------------------------------------------------------------------------
\* What the user can type into the entry (line 265)
\* ------------------------------------------------------------------------
\* a bare user ID
BareId == <<"A", "b">>
\* a bare user ID between blanks
PaddedId == <<" ", "A", "b", " ">>
\* https://s/c?user=Cd&hl=en
UrlWithUser ==
    <<"h", "t", "t", "p", "s", ":", "/", "/", "s", "/", "c", "?",
      "u", "s", "e", "r", "=", "C", "d", "&", "h", "l", "=", "e", "n">>
\* https://s/c?hl=en
UrlWithoutUser ==
    <<"h", "t", "t", "p", "s", ":", "/", "/", "s", "/", "c", "?",
      "h", "l", "=", "e", "n">>
Blank == <<" ">>

\* the texts of the entry: fields joined by commas
EntryTexts ==
    { Join(fs, ",") : fs \in
        { <<Blank>>, <<BareId>>, <<UrlWithoutUser>>,
          <<PaddedId, UrlWithUser>>, <<UrlWithoutUser, BareId>>,
          <<UrlWithUser, Blank, UrlWithoutUser>> } }

\* line 272: the non-blank fields, stripped
RECURSIVE StripNonBlank(_)
StripNonBlank(pieces) ==
    IF pieces = <<>> THEN <<>>
    ELSE IF Strip(Head(pieces)) # <<>>
         THEN <<Strip(Head(pieces))>> \o StripNonBlank(Tail(pieces))
         ELSE StripNonBlank(Tail(pieces))

UrlList(user_input) == StripNonBlank(Split(user_input, ","))

\* ------------------------------------------------------------------------
\* State
\* ------------------------------------------------------------------------
VARIABLES
    pc,            \* where on_submit stands: "idle" (not running), "profile"
                   \* (before line 164), "pubs" (before line 109), "report"
                   \* (fetch_scholar_profile has returned, before line 281)
    last_end,      \* the run of on_submit: "none" (button not pressed yet),
                   \* "running", or how it ended: "warned" (line 268),
                   \* "done" (line 302), "raised" (an exception left it)
    url_list,      \* on_submit: url_list
    idx,           \* on_submit: position of `url` in url_list
    user_id,       \* on_submit: user_id
    profile_data,  \* on_submit: profile_data (line 280); None while no
                   \* value returned by line 280 is waiting to be read
    output_text,   \* the text widget: the messages inserted, in order
    csv_files,     \* names (user IDs) of the CSV files written
    p_retries,     \* fetch_scholar_profile: retries
    p_delay,       \* fetch_scholar_profile: delay
    p_attempt,     \* fetch_scholar_profile: attempt
    profile,       \* fetch_scholar_profile: profile
    f_retries,     \* fetch_all_publications: retries
    f_delay,       \* fetch_all_publications: delay
    attempt,       \* fetch_all_publications: attempt
    start,         \* fetch_all_publications: start
    publications,  \* fetch_all_publications: publications
    requests,      \* the requests issued since fetch_scholar_profile was
                   \* called (line 280), in order, each with the status
                   \* answered, the rows of the page and the sleep after it
    ret            \* the return statements that ended the last calls of
                   \* fetch_scholar_profile and fetch_all_publications

vars == <<pc, last_end, url_list, idx, user_id, profile_data, output_text,
          csv_files, p_retries, p_delay, p_attempt, profile, f_retries,
          f_delay, attempt, start, publications, requests, ret>>

profileFrame == <<p_retries, p_delay, p_attempt, profile>>
pubsFrame == <<f_retries, f_delay, attempt, start, publications>>
submitFrame == <<url_list, idx, user_id, output_text, csv_files>>

NoRet == [profile_line |-> 0, pubs_line |-> 0, pubs |-> PyNone]

Init ==
    /\ pc = "idle"
    /\ last_end = "none"
    /\ url_list = <<>>
    /\ idx = 0
    /\ user_id = PyNone
    /\ profile_data = PyNone
    /\ output_text = <<>>
    /\ csv_files = {}
    /\ p_retries = DefaultRetries
    /\ p_delay = DefaultDelay
    /\ p_attempt = 0
    /\ profile = EmptyDict
    /\ f_retries = DefaultRetries
    /\ f_delay = DefaultDelay
    /\ attempt = 0
    /\ start = 0
    /\ publications = <<>>
    /\ requests = <<>>
    /\ ret = NoRet

\* ------------------------------------------------------------------------
\* on_submit (lines 264-302)
\* ------------------------------------------------------------------------
CouldNotParse(url) == [msg |-> "Could not parse user ID", arg |-> url]
FailedToFetch(uid) == [msg |-> "Failed to fetch profile data", arg |-> uid]
SavedData(uid) == [msg |-> "Saved data", arg |-> uid]
\* lines 282-292: the block of results of one user (the values printed are
\* those of profile_data and are not repeated here)
Results(uid) == [msg |-> "Results", arg |-> uid]

\* the frame of fetch_scholar_profile as a call begins, and after it is gone
NewProfileFrame ==
    /\ p_retries' = DefaultRetries
    /\ p_delay' = DefaultDelay
    /\ p_attempt' = 0
    /\ profile' = EmptyDict

\* the frame of fetch_all_publications as a call begins, and after it is gone
NewPubsFrame ==
    /\ f_retries' = DefaultRetries
    /\ f_delay' = DefaultDelay
    /\ publications' = <<>>
    /\ start' = 0
    /\ attempt' = 0

\* an exception leaves the fetch functions and on_submit: the Tk main loop
\* reports it and goes on
Raise ==
    /\ pc' = "idle"
    /\ last_end' = "raised"
    /\ NewProfileFrame
    /\ NewPubsFrame
    /\ UNCHANGED <<submitFrame, profile_data, ret>>

\* lines 274-278: the loop from position i on, up to the next url whose
\* user ID parses; every url passed over inserts its message
RECURSIVE SkipUnparseable(_, _, _)
SkipUnparseable(list, i, out) ==
    IF i > Len(list) THEN [idx |-> i, out |-> out]
    ELSE IF Truthy(parse_user_id(list[i])) THEN [idx |-> i, out |-> out]
    ELSE SkipUnparseable(list, i + 1, Append(out, CouldNotParse(list[i])))

\* the loop of line 274 continues at position i of `list`: it runs up to the
\* call of fetch_scholar_profile (line 280), or to the end (line 302)
ContinueLoop(list, i, out) ==
    LET r == SkipUnparseable(list, i, out)
    IN /\ idx' = r.idx
       /\ output_text' = r.out
       /\ profile_data' = PyNone
       /\ requests' = <<>>
       /\ ret' = NoRet
       /\ NewProfileFrame
       /\ IF r.idx > Len(list)
          THEN /\ pc' = "idle"
               /\ last_end' = "done"
               /\ user_id' = IF list = <<>> THEN user_id
                             ELSE parse_user_id(list[Len(list)])
          ELSE /\ pc' = "profile"
               /\ last_end' = "running"
               /\ user_id' = parse_user_id(list[r.idx])

\* the button is pressed with `text` in the entry (one run of on_submit is
\* followed, from the state the program starts in)
Submit ==
    /\ pc = "idle"
    /\ last_end = "none"
    /\ \E text \in EntryTexts :
         IF Strip(text) = <<>>
         THEN /\ last_end' = "warned"
              /\ UNCHANGED <<pc, submitFrame, profile_data, profileFrame,
                             pubsFrame, requests, ret>>
         ELSE /\ url_list' = UrlList(Strip(text))
              /\ ContinueLoop(UrlList(Strip(text)), 1, <<>>)
              /\ UNCHANGED <<csv_files, pubsFrame>>

\* ------------------------------------------------------------------------
\* requests.get and the sleep after it, as the server's log sees them
\* ------------------------------------------------------------------------
NoPage == [n |-> 0]

\* page: the page answered with status 200, NoPage otherwise; slept: the
\* time.sleep that followed the response, 0 when there was none
Request(fn, uid, cstart, status, page, slept) ==
    [fn |-> fn, user |-> uid, cstart |-> cstart, status |-> status,
     page |-> page, slept |-> slept]

\* The server is irregular in one way per call of fetch_scholar_profile: it
\* rate-limits, or it serves a profile page that lacks something, or it
\* serves one malformed publication row.
FullProfile ==
    ParseProfilePage([name |-> TRUE, affiliation |-> TRUE, interests |-> 1,
                      cells |-> MetricCells])
CompletePage(pg) == ~MetricsRaises(pg) /\ ParseProfilePage(pg) = FullProfile
HasRateLimited == \E i \in 1..Len(requests) : requests[i].status = StatusRateLimited
HasIncompleteProfile == profile # FullProfile
HasMalformedRow ==
    \E i \in 1..Len(requests) : requests[i].fn = "pubs" /\ requests[i].page.n > 0
                                 /\ requests[i].page.bad > 0

\* ------------------------------------------------------------------------
\* fetch_scholar_profile (lines 153-223)
\* ------------------------------------------------------------------------
\* lines 215-217: the sleep after a response of the profile page
ProfileSleep(status, delay) == IF status = StatusRateLimited THEN delay ELSE 0

\* ProfileExhausted with one attempt too many
ProfileExhausted_OffByOne(a, retries) == ~(a + 1 < retries + 1)

\* line 163: `for attempt in range(retries)` has no further attempt
ProfileExhausted(a, retries) == ~(a + 1 < retries)

\* the values of lines 220 and 223
ProfileFailureValue == PyNone
ProfileExhaustedValue == PyNone

\* fetch_scholar_profile returns value v from line `line`: line 280 assigns
\* it to profile_data
ReturnProfile(v, line) ==
    /\ pc' = "report"
    /\ profile_data' = v
    /\ ret' = [ret EXCEPT !.profile_line = line]
    /\ NewProfileFrame
    /\ UNCHANGED <<last_end, submitFrame>>

\* fetch_all_publications returns value v from line `line` to line 206;
\* lines 207-214 build the record and return it
ReturnPublications(v, line) ==
    /\ pc' = "report"
    /\ profile_data' = PyDict(MergePublications(profile, v))
    /\ ret' = [profile_line |-> 214, pubs_line |-> line, pubs |-> v]
    /\ NewProfileFrame
    /\ NewPubsFrame
    /\ UNCHANGED <<last_end, submitFrame>>

\* line 164 answered 200: lines 168-206, up to the first request of
\* fetch_all_publications(user_id), called with its default retries and delay
ProfileOK ==
    /\ pc = "profile"
    /\ Len(requests) < MaxRequests
    /\ \E pg \in ProfilePages :
         /\ ~CompletePage(pg) => ~HasRateLimited
         /\ requests' = Append(requests,
                Request("profile", user_id, -1, StatusOK, pg,
                        ProfileSleep(StatusOK, p_delay)))
         /\ IF MetricsRaises(pg)
            THEN Raise
            ELSE /\ profile' = ParseProfilePage(pg)
                 /\ pc' = "pubs"
                 /\ NewPubsFrame
                 /\ UNCHANGED <<last_end, submitFrame, profile_data,
                                p_retries, p_delay, p_attempt, ret>>

\* line 164 answered 429: lines 215-217, then the next attempt or, when the
\* for loop is exhausted, lines 222-223
ProfileRateLimited ==
    /\ pc = "profile"
    /\ Len(requests) < MaxRequests
    /\ requests' = Append(requests,
           Request("profile", user_id, -1, StatusRateLimited, NoPage,
                   ProfileSleep(StatusRateLimited, p_delay)))
    /\ IF ProfileExhausted(p_attempt, p_retries)
       THEN ReturnProfile(ProfileExhaustedValue, 223)
       ELSE /\ p_attempt' = p_attempt + 1
            /\ UNCHANGED <<pc, last_end, submitFrame, profile_data,
                           p_retries, p_delay, profile, ret>>
    /\ UNCHANGED pubsFrame

\* ProfileFailed going on to the publications
ProfileFailed_GoesOn ==
    /\ pc = "profile"
    /\ Len(requests) < MaxRequests
    /\ \E st \in Statuses \ {StatusOK, StatusRateLimited} :
         requests' = Append(requests,
             Request("profile", user_id, -1, st, NoPage, ProfileSleep(st, p_delay)))
    /\ pc' = "pubs"
    /\ UNCHANGED <<last_end, submitFrame, profile_data, profileFrame,
                   pubsFrame, ret>>

\* line 164 answered another status: lines 218-220
ProfileFailed ==
    /\ pc = "profile"
    /\ Len(requests) < MaxRequests
    /\ \E st \in Statuses \ {StatusOK, StatusRateLimited} :
         requests' = Append(requests,
             Request("profile", user_id, -1, st, NoPage, ProfileSleep(st, p_delay)))
    /\ ReturnProfile(ProfileFailureValue, 220)
    /\ UNCHANGED pubsFrame

\* ------------------------------------------------------------------------
\* fetch_all_publications (lines 89-148)
\* ------------------------------------------------------------------------
\* LastPage with <= for <
LastPage_Inclusive(n) == n <= PageSize

\* line 135: the page just parsed is the last one
LastPage(n) == n < PageSize

\* NextStart counting pages, not rows
NextStart_ByOne(s) == s + 1

\* line 138
NextStart(s) == s + PageSize

\* PubsSleep sleeping after every response that is not a 200
PubsSleep_AnyFailure(status, delay) == IF status # StatusOK THEN delay ELSE 0

\* PubsSleep without the call of time.sleep
PubsSleep_Forgotten(status, delay) == 0

\* lines 140-142: the sleep after a response of a publication page
PubsSleep(status, delay) == IF status = StatusRateLimited THEN delay ELSE 0

\* lines 101 and 108: the attempt after a 429; when `for attempt in
\* range(retries)` is exhausted, the `while True` around it starts the for
\* loop again, so lines 147-148 are never reached
PubsNextAttempt(a, retries) == IF a + 1 < retries THEN a + 1 ELSE 0

\* the value of line 145
PubsFailureValue == PyNone

\* line 109 answered 200: lines 112-139
PubsOK ==
    /\ pc = "pubs"
    /\ Len(requests) < MaxRequests
    /\ \E pg \in PubPages :
         LET r == ParseRows(Rows(pg, start), publications)
         IN /\ pg.n >= PageSize => start < MaxFullPages * PageSize
            /\ pg.bad > 0 =>
                   ~HasMalformedRow /\ ~HasRateLimited /\ ~HasIncompleteProfile
            /\ requests' = Append(requests,
                   Request("pubs", user_id, start, StatusOK, pg,
                           PubsSleep(StatusOK, f_delay)))
            /\ IF r.raised
               THEN Raise
               ELSE IF LastPage(pg.n)
               THEN ReturnPublications(PyList(r.pubs), 136)
               ELSE /\ publications' = r.pubs
                    /\ start' = NextStart(start)
                    /\ attempt' = 0
                    /\ UNCHANGED <<pc, last_end, submitFrame, profile_data,
                                   profileFrame, f_retries, f_delay, ret>>

\* PubsRateLimited moving on to the next page
PubsRateLimited_Advances ==
    /\ pc = "pubs"
    /\ Len(requests) < MaxRequests
    /\ ~HasMalformedRow /\ ~HasIncompleteProfile
    /\ start < MaxFullPages * PageSize
    /\ requests' = Append(requests,
           Request("pubs", user_id, start, StatusRateLimited, NoPage,
                   PubsSleep(StatusRateLimited, f_delay)))
    /\ attempt' = PubsNextAttempt(attempt, f_retries)
    /\ start' = NextStart(start)
    /\ UNCHANGED <<pc, last_end, submitFrame, profile_data, profileFrame,
                   f_retries, f_delay, publications, ret>>

\* line 109 answered 429: lines 140-142, then the next attempt
PubsRateLimited ==
    /\ pc = "pubs"
    /\ Len(requests) < MaxRequests
    /\ ~HasMalformedRow /\ ~HasIncompleteProfile
    /\ requests' = Append(requests,
           Request("pubs", user_id, start, StatusRateLimited, NoPage,
                   PubsSleep(StatusRateLimited, f_delay)))
    /\ attempt' = PubsNextAttempt(attempt, f_retries)
    /\ UNCHANGED <<pc, last_end, submitFrame, profile_data, profileFrame,
                   f_retries, f_delay, start, publications, ret>>

\* line 109 answered another status: lines 143-145
PubsFailed ==
    /\ pc = "pubs"
    /\ Len(requests) < MaxRequests
    /\ \E st \in Statuses \ {StatusOK, StatusRateLimited} :
         requests' = Append(requests,
             Request("pubs", user_id, start, st, NoPage, PubsSleep(st, f_delay)))
    /\ ReturnPublications(PubsFailureValue, 145)

\* ------------------------------------------------------------------------
\* on_submit, lines 281-300, and on to the next url
\* ------------------------------------------------------------------------
Report ==
    /\ pc = "report"
    /\ IF Truthy(profile_data)
       THEN /\ csv_files' = csv_files \cup {user_id.val}
            /\ ContinueLoop(url_list, idx + 1,
                   output_text \o <<Results(user_id.val), SavedData(user_id.val)>>)
       ELSE /\ csv_files' = csv_files
            /\ ContinueLoop(url_list, idx + 1,
                   Append(output_text, FailedToFetch(user_id.val)))
    /\ UNCHANGED <<url_list, pubsFrame>>

Next ==
    \/ Submit
    \/ ProfileOK
    \/ ProfileRateLimited
    \/ ProfileFailed
    \/ PubsOK
    \/ PubsRateLimited
    \/ PubsFailed
    \/ Report

Spec == Init /\ [][Next]_vars

\* ------------------------------------------------------------------------
\* parse_user_id called on its own (lines 68-84)
\* ------------------------------------------------------------------------
\* query fields
FieldUserAb == UserKey \o <<"=", "A", "b">>
FieldUserCd == UserKey \o <<"=", "C", "d">>
FieldUserPlus == UserKey \o <<"=", "A", "+", "b">>
FieldUserEq == UserKey \o <<"=", "A", "=", "b">>
FieldUserBlank == UserKey \o <<"=">>
FieldUserNoValue == UserKey
FieldHl == <<"h", "l", "=", "e", "n">>
FieldXuser == <<"x">> \o UserKey \o <<"=", "Z">>
FieldHlUser == <<"h", "l", "=">> \o UserKey

QueryFields ==
    {FieldUserAb, FieldUserCd, FieldUserPlus, FieldUserEq, FieldUserBlank,
     FieldUserNoValue, FieldHl, FieldXuser, FieldHlUser}

\* a URL in parts: blanks around it or not, its scheme, the fields of its
\* query and its fragment
Schemes == {HttpPrefix, HttpPrefix \o <<"s">>}
Queries ==
    {<<>>} \cup {<<f>> : f \in QueryFields}
           \cup {<<f, g>> : f \in QueryFields, g \in QueryFields}
Fragments ==
    {<<>>, <<"#", "x">>, <<"#", "?">> \o FieldUserCd, <<"#", "&">> \o FieldUserCd}
UrlParts == [pad : BOOLEAN, scheme : Schemes, fields : Queries, frag : Fragments]

Assemble(c) ==
    (IF c.pad THEN <<" ">> ELSE <<>>)
    \o c.scheme \o <<":", "/", "/", "s">>
    \o (IF c.fields = <<>> THEN <<>> ELSE <<"?">> \o Join(c.fields, "&"))
    \o c.frag
    \o (IF c.pad THEN <<" ", " ">> ELSE <<>>)

\* inputs that are no URL: user IDs, with blanks around them, with a blank
\* inside, and user IDs that begin with the letters of "http"
BareInputs ==
    {BareId, PaddedId, <<"A", " ", "b">>, HttpPrefix \o <<"A", "b">>,
     <<" ">> \o HttpPrefix \o <<"s", "X">>, HttpPrefix, <<"h", "t", "t">>,
     <<"H", "T", "T", "P", ":", "/", "/", "s">>}

ParseInputs == {Assemble(c) : c \in UrlParts} \cup BareInputs

\* parse_user_id is about to be called on one input
InitParse ==
    /\ pc = "parse"
    /\ last_end = "none"
    /\ \E input \in ParseInputs : url_list = <<input>>
    /\ idx = 1
    /\ user_id = PyNone
    /\ profile_data = PyNone
    /\ output_text = <<>>
    /\ csv_files = {}
    /\ p_retries = DefaultRetries
    /\ p_delay = DefaultDelay
    /\ p_attempt = 0
    /\ profile = EmptyDict
    /\ f_retries = DefaultRetries
    /\ f_delay = DefaultDelay
    /\ attempt = 0
    /\ start = 0
    /\ publications = <<>>
    /\ requests = <<>>
    /\ ret = NoRet

\* user_id = parse_user_id(url)
ParseStep ==
    /\ pc = "parse"
    /\ user_id' = parse_user_id(url_list[idx])
    /\ pc' = "parsed"
    /\ UNCHANGED <<last_end, url_list, idx, profile_data, output_text,
                   csv_files, profileFrame, pubsFrame, requests, ret>>

NextParse == ParseStep

SpecParse == InitParse /\ [][NextParse]_vars

\* ------------------------------------------------------------------------
\* fetch_scholar_profile(user_id, retries, delay) called on its own, with
\* retries and delay of the caller's choice (line 153)
\* ------------------------------------------------------------------------
RetriesChoices == {2, DefaultRetries}
DelayChoices == {7, DefaultDelay}

InitCall ==
    /\ pc = "profile"
    /\ last_end = "running"
    /\ url_list = <<BareId>>
    /\ idx = 1
    /\ user_id = parse_user_id(BareId)
    /\ profile_data = PyNone
    /\ output_text = <<>>
    /\ csv_files = {}
    /\ p_retries \in RetriesChoices
    /\ p_delay \in DelayChoices
    /\ p_attempt = 0
    /\ profile = EmptyDict
    /\ f_retries = DefaultRetries
    /\ f_delay = DefaultDelay
    /\ attempt = 0
    /\ start = 0
    /\ publications = <<>>
    /\ requests = <<>>
    /\ ret = NoRet

NextCall ==
    \/ ProfileOK
    \/ ProfileRateLimited
    \/ ProfileFailed
    \/ PubsOK
    \/ PubsRateLimited
    \/ PubsFailed

SpecCall == InitCall /\ [][NextCall]_vars

\* ------------------------------------------------------------------------
\* What the server's log shows
\* ------------------------------------------------------------------------
IsPubs(r) == r.fn = "pubs"
IsProfile(r) == r.fn = "profile"
PubsRequests == SelectSeq(requests, IsPubs)
ProfileRequests == SelectSeq(requests, IsProfile)

AllOK(log) == \A i \in 1..Len(log) : log[i].status = StatusOK
Count429(log) == Cardinality({i \in 1..Len(log) : log[i].status = StatusRateLimited})

RECURSIVE TotalSlept(_)
TotalSlept(log) == IF log = <<>> THEN 0 ELSE Head(log).slept + TotalSlept(Tail(log))

\* how many 429 responses in a row end the log at position i
RECURSIVE Run429(_, _)
Run429(log, i) ==
    IF i = 0 THEN 0
    ELSE IF log[i].status # StatusRateLimited THEN 0
    ELSE IF i > 1 /\ log[i - 1].cstart # log[i].cstart THEN 1
    ELSE 1 + Run429(log, i - 1)

\* the longest run of 429 responses for one offset
MaxRun429(log) ==
    IF log = <<>> THEN 0
    ELSE LET runs == {Run429(log, i) : i \in 1..Len(log)}
         IN CHOOSE m \in runs : \A x \in runs : x <= m

\* fetch_all_publications has just returned
PubsReturned == pc = "report" /\ ret.pubs_line # 0

\* the pages of a log of 200 responses are k full pages and a shorter one
FullThenShort(log) ==
    /\ log # <<>>
    /\ \A i \in 1..(Len(log) - 1) : log[i].page.n = PageSize
    /\ log[Len(log)].page.n < PageSize

\* ------------------------------------------------------------------------
\* C1: when every publication page is answered 200, with k pages of
\* PageSize rows and then a page of n < PageSize rows, the call returns
\* PageSize*k + n records in page order after exactly k+1 requests, at
\* offsets 0, PageSize, ..., PageSize*k; while it is still fetching, it has
\* issued one request per full page received.
\* ------------------------------------------------------------------------
C1_Pagination ==
    LET log == PubsRequests
        k == Len(log) - 1
    IN /\ (pc = "pubs" /\ AllOK(log)) =>
            /\ \A i \in 1..Len(log) : log[i].page.n >= PageSize
            /\ start = PageSize * Len(log)
       /\ (PubsReturned /\ AllOK(log)) =>
            /\ FullThenShort(log)
            /\ \A i \in 1..Len(log) : log[i].cstart = PageSize * (i - 1)
            /\ ret.pubs_line = 136
            /\ ret.pubs.type = "list"
            /\ Len(ret.pubs.val) = PageSize * k + log[Len(log)].page.n
            /\ \A j \in 1..Len(ret.pubs.val) :
                   ret.pubs.val[j].title = Text("title", j)

C1_Witness ==
    /\ PubsReturned
    /\ Len(PubsRequests) = 3
    /\ AllOK(PubsRequests)
    /\ PubsRequests[3].page.n = 37
    /\ Len(ret.pubs.val) = 237

\* ------------------------------------------------------------------------
\* C2: once the server has answered 429 to `retries` requests in a row for
\* one offset, fetch_all_publications has returned the failure value, so
\* that no offset sees more than `retries` requests answered 429 in a row.
\* ------------------------------------------------------------------------
C2_RetriesExhausted ==
    Run429(PubsRequests, Len(PubsRequests)) >= f_retries =>
        /\ PubsReturned
        /\ ret.pubs = PyNone
        /\ Run429(PubsRequests, Len(PubsRequests)) = f_retries

\* ------------------------------------------------------------------------
\* C3: a publication request answered with a status other than 200 and 429
\* is the last request of the call: no sleep follows it and the call has
\* returned the failure value.
\* ------------------------------------------------------------------------
C3_HardFailure ==
    \A i \in 1..Len(requests) :
        (requests[i].fn = "pubs" /\ requests[i].status \in OtherStatuses) =>
            /\ i = Len(requests)
            /\ requests[i].slept = 0
            /\ PubsReturned
            /\ ret.pubs = PyNone
            /\ ret.pubs_line = 145

C3_Witness ==
    /\ PubsReturned
    /\ Len(PubsRequests) = 1
    /\ PubsRequests[1].status = 500
    /\ TotalSlept(PubsRequests) = 0

\* ------------------------------------------------------------------------
\* C4: the time slept by fetch_all_publications is `delay` for each 429
\* response received, and when no offset has seen `retries` 429 responses
\* in a row and the last response is a 200 with a short page, the call has
\* returned the list.
\* ------------------------------------------------------------------------
C4_RateLimitDelay ==
    LET log == PubsRequests
    IN MaxRun429(log) < f_retries =>
         /\ TotalSlept(log) = Count429(log) * f_delay
         /\ \A i \in 1..Len(log) :
                log[i].slept = (IF log[i].status = StatusRateLimited THEN f_delay ELSE 0)
         /\ (PubsReturned /\ log[Len(log)].status = StatusOK) =>
                ret.pubs.type = "list"

C4_Witness ==
    LET log == PubsRequests
    IN /\ PubsReturned
       /\ Len(log) = 4
       /\ \A i \in 1..3 : log[i].status = StatusRateLimited
       /\ log[4].status = StatusOK
       /\ TotalSlept(log) = 3 * DefaultDelay
       /\ ret.pubs.type = "list"

\* ------------------------------------------------------------------------
\* C5: the value fetch_scholar_profile returns when its retries are
\* exhausted (line 223) differs from the value it returns on a plain HTTP
\* failure (line 220).
\* ------------------------------------------------------------------------
C5_DistinctSignals ==
    (pc = "report" /\ ret.profile_line = 223) => profile_data # ProfileFailureValue

\* ------------------------------------------------------------------------
\* C6: a record returned by fetch_scholar_profile carries the metadata
\* extracted from the profile page and either the list returned by
\* fetch_all_publications with its length as publications_count, or, when
\* fetch_all_publications returned the failure value, the empty list with
\* a publications_count that is not an integer.
\* ------------------------------------------------------------------------
MetadataKeys == {"name", "affiliation", "interests", "citations", "h_index", "i10_index"}

\* what lines 168-204 extracted from the profile page of the current call
Extracted == ParseProfilePage(ProfileRequests[Len(ProfileRequests)].page)

C6_CountInvariant ==
    (pc = "report" /\ profile_data # PyNone) =>
        LET d == profile_data.val
        IN /\ profile_data.type = "dict"
           /\ {"publications", "publications_count"} \subseteq DOMAIN d
           /\ \A key \in MetadataKeys :
                  /\ key \in DOMAIN d <=> key \in DOMAIN Extracted
                  /\ key \in DOMAIN d => d[key] = Extracted[key]
           /\ IF ret.pubs # PyNone
              THEN /\ d["publications"] = ret.pubs.val
                   /\ d["publications_count"] = PyInt(Len(d["publications"]))
              ELSE /\ d["publications"] = <<>>
                   /\ d["publications_count"].type # "int"

C6_Witness ==
    /\ pc = "report"
    /\ profile_data # PyNone
    /\ ret.pubs_line = 145
    /\ Len(PubsRequests) = 3
    /\ "name" \in DOMAIN profile_data.val
    /\ profile_data.val["publications"] = <<>>

\* ------------------------------------------------------------------------
\* C7: a profile page with fewer than six metric cells is processed without
\* an exception, and the record then has none of the three metric pairs.
\* ------------------------------------------------------------------------
C7_MetricsAllOrNothing ==
    \A i \in 1..Len(requests) :
        (/\ requests[i].fn = "profile"
         /\ requests[i].status = StatusOK
         /\ requests[i].page.cells < MetricCells) =>
            /\ last_end # "raised"
            /\ pc = "pubs" =>
                   DOMAIN profile \cap {"citations", "h_index", "i10_index"} = {}
            /\ (pc = "report" /\ profile_data # PyNone) =>
                   DOMAIN profile_data.val
                       \cap {"citations", "h_index", "i10_index"} = {}

\* ------------------------------------------------------------------------
\* C8: a run of on_submit that has ended has ended at line 302 ("Done"),
\* after every url of the batch got its message, in input order.
\* ------------------------------------------------------------------------
Processed(list, out) ==
    LET heads == SelectSeq(out, LAMBDA m : m.msg # "Saved data")
    IN /\ Len(heads) = Len(list)
       /\ \A i \in 1..Len(list) :
              IF Truthy(parse_user_id(list[i]))
              THEN heads[i].msg \in {"Results", "Failed to fetch profile data"}
                   /\ heads[i].arg = parse_user_id(list[i]).val
              ELSE heads[i] = CouldNotParse(list[i])

C8_BatchNeverAborts ==
    (pc = "idle" /\ last_end \notin {"none", "warned"}) =>
        /\ last_end = "done"
        /\ Processed(url_list, output_text)

\* ------------------------------------------------------------------------
\* C9: fetch_scholar_profile requests the profile page at most `retries`
\* times, sleeping `delay` after each 429; a response that is not a 429 is
\* its last profile request and no sleep follows it; after a status other
\* than 200 and 429, or after `retries` 429 responses, it has returned None
\* and has issued no other request.
\* ------------------------------------------------------------------------
C9_ProfileRetry ==
    LET log == ProfileRequests
    IN /\ Len(log) <= p_retries
       /\ \A i \in 1..Len(requests) :
              requests[i].fn = "profile" =>
                 /\ requests[i].slept =
                        (IF requests[i].status = StatusRateLimited THEN p_delay ELSE 0)
                 /\ requests[i].status # StatusRateLimited =>
                        \A j \in (i + 1)..Len(requests) : requests[j].fn = "pubs"
                 /\ requests[i].status = StatusRateLimited =>
                        \A j \in 1..i : requests[j].fn = "profile"
                 /\ requests[i].status \in OtherStatuses =>
                        /\ i = Len(requests)
                        /\ pc = "report"
                        /\ profile_data = PyNone
       /\ (Len(log) = p_retries /\ Count429(log) = p_retries) =>
              /\ Len(requests) = p_retries
              /\ pc = "report"
              /\ profile_data = PyNone

C9_Witness ==
    /\ pc = "report"
    /\ profile_data = PyNone
    /\ Len(ProfileRequests) = DefaultRetries
    /\ Count429(ProfileRequests) = DefaultRetries
    /\ TotalSlept(requests) = DefaultRetries * DefaultDelay

\* ------------------------------------------------------------------------
\* C10 as claimed: whenever a publication row lacks one of its five fields,
\* the extraction raises, and no record holds an empty value.
\* ------------------------------------------------------------------------
\* the records fetch_all_publications holds, or has just returned
Fetched ==
    IF PubsReturned /\ ret.pubs # PyNone THEN ret.pubs.val
    ELSE IF pc = "pubs" THEN publications
    ELSE <<>>

LacksField(sh) == ~sh.title \/ sh.gray # GoodShape.gray \/ ~sh.ac \/ ~sh.h

HasEmptyField(rec) ==
    \E f \in {"title", "authors", "journal", "citations", "year"} : rec[f] = <<>>

Loud(sh) == ~sh.title \/ sh.gray = <<>> \/ ~sh.ac \/ ~sh.h

FieldsMatch(d, pg) ==
    /\ "name" \in DOMAIN d <=> pg.name
    /\ "affiliation" \in DOMAIN d <=> pg.affiliation
    /\ "interests" \in DOMAIN d <=> pg.interests > 0
    /\ pg.name => d["name"] = Text("name", 0)
    /\ pg.affiliation => d["affiliation"] = Text("affiliation", 0)
    /\ pg.interests > 0 =>
           d["interests"] = [k \in 1..pg.interests |-> Text("interest", k)]

C11_FieldTolerance ==
    \A i \in 1..Len(requests) :
        LET e == requests[i]
            last == requests[Len(requests)]
        IN (/\ e.fn = "profile"
            /\ e.status = StatusOK
            /\ (e.page.cells = 0 \/ e.page.cells >= MetricCells)) =>
              /\ last_end = "raised" =>
                     /\ last.fn = "pubs"
                     /\ last.status = StatusOK
                     /\ last.page.n > 0
                     /\ last.page.bad > 0
              /\ pc = "pubs" => FieldsMatch(profile, e.page)
              /\ pc = "report" =>
                     /\ profile_data.type = "dict"
                     /\ FieldsMatch(profile_data.val, e.page)

C11_Witness ==
    /\ pc = "report"
    /\ profile_data.type = "dict"
    /\ "name" \notin DOMAIN profile_data.val
    /\ "affiliation" \in DOMAIN profile_data.val
    /\ "interests" \notin DOMAIN profile_data.val
    /\ ProfileRequests[Len(ProfileRequests)].page.affiliation
    /\ ~ProfileRequests[Len(ProfileRequests)].page.name

\* ------------------------------------------------------------------------
\* The user parameter of a URL given in parts
\* ------------------------------------------------------------------------
IsUserField(f) == Find(f, "=") > 0 /\ Split1(f, "=")[1] = UserKey
FieldValue(f) == PlusToSpace(Split1(f, "=")[2])
IsFilledUserField(f) == IsUserField(f) /\ FieldValue(f) # <<>>

\* C12 as claimed: the value of the first user parameter, None without one
ClaimedUser(c) ==
    LET us == SelectSeq(c.fields, IsUserField)
    IN IF us = <<>> THEN PyNone ELSE PyStr(FieldValue(us[1]))

\* the value of the first user parameter that is not blank, None without one
FilledUser(c) ==
    LET us == SelectSeq(c.fields, IsFilledUserField)
    IN IF us = <<>> THEN PyNone ELSE PyStr(FieldValue(us[1]))

\* ------------------------------------------------------------------------
\* C12 as claimed: for a URL, parse_user_id returns the value of the user
\* parameter of its query, None when the query has no user parameter,
\* whatever the other parameters and the fragment are.
\* ------------------------------------------------------------------------
C12_UserParameter ==
    pc = "parsed" =>
        \A c \in UrlParts : Assemble(c) = url_list[1] => user_id = ClaimedUser(c)

\* ------------------------------------------------------------------------
\* C12 amended: for a URL, parse_user_id returns the first value of the
\* user parameter that is not blank, None when the query has no user
\* parameter with a value that is not blank, whatever the other parameters
\* and the fragment are.
\* ------------------------------------------------------------------------
C12_FilledUserParameter ==
    pc = "parsed" =>
        \A c \in UrlParts : Assemble(c) = url_list[1] => user_id = FilledUser(c)

C12_Witness ==
    /\ pc = "parsed"
    /\ url_list[1] = Assemble([pad |-> TRUE, scheme |-> HttpPrefix \o <<"s">>,
                               fields |-> <<FieldHl, FieldUserAb>>,
                               frag |-> <<"#", "?">> \o FieldUserCd])
    /\ user_id = PyStr(<<"A", "b">>)

\* ------------------------------------------------------------------------
\* C13: for an input that is no URL (it does not begin with http:// or
\* https:// once trimmed), parse_user_id returns the trimmed input.
\* ------------------------------------------------------------------------
IsUrl(s) ==
    \/ StartsWith(s, HttpPrefix \o <<":", "/", "/">>)
    \/ StartsWith(s, HttpPrefix \o <<"s", ":", "/", "/">>)

C13_BareIdentifier ==
    (pc = "parsed" /\ ~IsUrl(Strip(url_list[1]))) =>
        user_id = PyStr(Strip(url_list[1]))

\* ------------------------------------------------------------------------
\* C14: the attempts of fetch_all_publications are counted per offset: the
\* counter is zero when a page answered 200 has moved the offset on, and no
\* offset is requested more than `retries` times.
\* ------------------------------------------------------------------------
RequestsAt(log, cstart) == Cardinality({i \in 1..Len(log) : log[i].cstart = cstart})

C14_PerOffsetCeiling ==
    /\ (/\ pc = "pubs"
        /\ PubsRequests # <<>>
        /\ PubsRequests[Len(PubsRequests)].status = StatusOK) => attempt = 0
    /\ \A i \in 1..Len(PubsRequests) :
           RequestsAt(PubsRequests, PubsRequests[i].cstart) <= DefaultRetries

\* ------------------------------------------------------------------------
\* C15: a publication request answered 429 leaves the offset and the
\* publications collected so far as they were, and the request that follows
\* it is a publication request for the same offset.
\* ------------------------------------------------------------------------
RateLimitedStep ==
    /\ pc = "pubs"
    /\ Len(requests') = Len(requests) + 1
    /\ requests'[Len(requests')].status = StatusRateLimited

SameOffsetAfter429 ==
    \A i \in 1..(Len(requests) - 1) :
        (requests[i].fn = "pubs" /\ requests[i].status = StatusRateLimited) =>
            /\ requests[i + 1].fn = "pubs"
            /\ requests[i + 1].cstart = requests[i].cstart
            /\ requests[i + 1].user = requests[i].user

C15_RateLimitFrame ==
    /\ []SameOffsetAfter429
    /\ [][RateLimitedStep =>
            /\ pc' = "pubs"
            /\ start' = start
            /\ publications' = publications
            /\ requests'[Len(requests')].cstart = start]_vars

C15_Witness ==
    /\ pc = "pubs"
    /\ Len(publications) = PageSize
    /\ start = PageSize
    /\ Len(PubsRequests) >= 4
    /\ PubsRequests[Len(PubsRequests) - 1].status = StatusRateLimited
    /\ PubsRequests[Len(PubsRequests) - 1].cstart = PageSize
    /\ PubsRequests[Len(PubsRequests)].status = StatusRateLimited
    /\ PubsRequests[Len(PubsRequests)].cstart = PageSize

\* ------------------------------------------------------------------------
\* C16: requests go out one user ID at a time and in order. Every request
\* is for the user ID parsed from the url the loop is at; a publication
\* request follows a profile request of the same call answered 200, and no
\* profile request follows that one; a call whose profile fetch returned
\* None made no publication request; the log of a call is closed only once
\* the call has returned, and a url whose user ID does not parse is passed
\* over without a request.
\* ------------------------------------------------------------------------
ForCurrentUrl ==
    requests # <<>> =>
        /\ idx \in 1..Len(url_list)
        /\ user_id = parse_user_id(url_list[idx])
        /\ Truthy(user_id)
        /\ \A i \in 1..Len(requests) : requests[i].user = user_id

ProfileThenPubs ==
    \A i \in 1..Len(requests) :
        /\ requests[i].fn = "pubs" =>
               \E j \in 1..(i - 1) :
                   requests[j].fn = "profile" /\ requests[j].status = StatusOK
        /\ (requests[i].fn = "profile" /\ requests[i].status = StatusOK) =>
               \A j \in (i + 1)..Len(requests) : requests[j].fn = "pubs"
        /\ (requests[i].fn = "profile" /\ requests[i].status # StatusRateLimited) =>
               \A j \in (i + 1)..Len(requests) : requests[j].fn = "pubs"

NoPubsWithoutProfile ==
    (pc = "report" /\ profile_data = PyNone) => PubsRequests = <<>>

C16_Sequential ==
    /\ [](ForCurrentUrl /\ ProfileThenPubs /\ NoPubsWithoutProfile)
    /\ [][requests' # requests =>
            \/ /\ pc \in {"profile", "pubs"}
               /\ \E e \in {requests'[Len(requests')]} :
                      requests' = Append(requests, e)
            \/ /\ pc = "report"
               /\ requests' = <<>>
               /\ \A i \in (idx + 1)..(idx' - 1) :
                      ~Truthy(parse_user_id(url_list[i]))]_vars

C16_Witness ==
    /\ pc = "pubs"
    /\ idx = 2
    /\ Truthy(parse_user_id(url_list[1]))
    /\ parse_user_id(url_list[1]) # user_id
    /\ Len(PubsRequests) >= 2
    /\ Len(ProfileRequests) >= 2

\* ------------------------------------------------------------------------
\* C17: fetch_all_publications returns all the records or none. When it has
\* returned, its value is the list of the rows of every page it was served,
\* the last of them a short page, or it is the failure value; when a
\* request fails after pages were fetched (a status other than 200 and 429,
\* or `retries` 429 responses in a row at one offset), the call has
\* returned the failure value and the record holds no publications.
\* ------------------------------------------------------------------------
OKPages == SelectSeq(PubsRequests, LAMBDA e : e.status = StatusOK)

RECURSIVE RowsServed(_)
RowsServed(log) == IF log = <<>> THEN 0 ELSE Head(log).page.n + RowsServed(Tail(log))

AllOrNothing ==
    PubsReturned =>
        IF ret.pubs # PyNone
        THEN /\ PubsRequests[Len(PubsRequests)].status = StatusOK
             /\ FullThenShort(OKPages)
             /\ Len(ret.pubs.val) = RowsServed(OKPages)
             /\ profile_data.val["publications"] = ret.pubs.val
        ELSE /\ PubsRequests[Len(PubsRequests)].status \in OtherStatuses
             /\ profile_data.val["publications"] = <<>>
             /\ profile_data.val["publications_count"] = FailedToCount

FailedAfterPages ==
    /\ OKPages # <<>>
    /\ \/ PubsRequests[Len(PubsRequests)].status \in OtherStatuses
       \/ Run429(PubsRequests, Len(PubsRequests)) >= DefaultRetries

C17_NoPartialList ==
    /\ AllOrNothing
    /\ FailedAfterPages =>
           /\ PubsReturned
           /\ ret.pubs = PyNone
           /\ profile_data.val["publications"] = <<>>

\* ------------------------------------------------------------------------
\* C18: with pages of at most PageSize rows, every publication request is
\* for an offset that is a multiple of PageSize and equals the number of
\* records collected so far; the offsets requested start at 0 and go up by
\* PageSize after each page answered 200 that is not the last, and stay
\* where they are otherwise, so that no offset is requested again once it
\* was answered 200.
\* ------------------------------------------------------------------------
OffsetsInOrder ==
    LET log == PubsRequests
    IN /\ log # <<>> => log[1].cstart = 0
       /\ \A i \in 1..Len(log) :
              /\ log[i].cstart % PageSize = 0
              /\ log[i].status = StatusOK => log[i].page.n <= PageSize
              /\ log[i].cstart =
                     RowsServed(SelectSeq(SubSeq(log, 1, i - 1),
                                          LAMBDA e : e.status = StatusOK))
       /\ \A i \in 1..(Len(log) - 1) :
              log[i + 1].cstart =
                  IF log[i].status = StatusOK THEN log[i].cstart + PageSize
                  ELSE log[i].cstart
       /\ \A i \in 1..Len(log) : \A j \in (i + 1)..Len(log) :
              log[i].status = StatusOK => log[j].cstart > log[i].cstart

C18_OffsetInvariant ==
    /\ [](OffsetsInOrder /\ (pc = "pubs" => start = Len(publications)))
    /\ [][(pc = "pubs" /\ requests' # requests) =>
            /\ requests'[Len(requests')].fn = "pubs"
            /\ requests'[Len(requests')].cstart = start
            /\ start = Len(publications)
            /\ start % PageSize = 0]_vars

C18_Witness ==
    /\ pc = "pubs"
    /\ start = PageSize + PageSize
    /\ Len(publications) = start
    /\ Len(PubsRequests) >= 4
    /\ PubsRequests[2].status = StatusRateLimited
    /\ PubsRequests[Len(PubsRequests)].status = StatusRateLimited
    /\ PubsRequests[Len(PubsRequests)].cstart = start

\* ------------------------------------------------------------------------
\* C19: the retries and delay that fetch_scholar_profile was called with
\* govern the publication requests made for it too: each sleep after a 429
\* lasts `delay`, and no offset is requested more than `retries` times.
\* ------------------------------------------------------------------------
C19_ParametersGovern ==
    pc = "pubs" =>
        \A i \in 1..Len(requests) :
            /\ requests[i].status = StatusRateLimited =>
                   requests[i].slept = p_delay
            /\ requests[i].fn = "pubs" =>
                   RequestsAt(PubsRequests, requests[i].cstart) <= p_retries

====
